---- MODULE Spec2Model ----
(***************************************************************************)
(* Godel terminal automation: the window-lifecycle layer of godel_core.py  *)
(* (DOMMonitor, BaseCommand, GodelTerminalController), the GodelAPI        *)
(* wrapper of godel_api.py and the chat-message store of db.py with the    *)
(* monitors that write to it.                                              *)
(***************************************************************************)
EXTENDS Integers, Sequences, FiniteSets, TLC

\* ------------------------------------------------------------------ bounds
MaxWindows  == 3    \* terminal windows created during one run
MaxIds      == 2    \* distinct values of the DOM id attribute
MaxCmds     == 2    \* command instances created during one run
MaxPolls    == 2    \* iterations of the get_new_window loop before its timeout
MaxBrowsers == 2    \* Chrome processes a GodelAPI starts during one run

MaxFrames   == 2    \* WebSocket frames captured between two monitor starts
MaxDomMsgs  == 1    \* chat messages the page shows
MaxRows     == 3    \* rows of the database, both tables together

MaxCallers  == 2    \* coroutines that call get_db in one process
MaxTimeout  == 2    \* seconds of the wait_for_completion timeout
MaxChannels == 2    \* channels of a MultiChannelChatMonitor
MaxSaves    == 2    \* save_message calls of one caller

WindowIds == 1..MaxIds

\* ------------------------------------------------------------- constants
NoWindow == 0       \* BaseCommand.window / window_id is None
NoDriver == 0       \* GodelTerminalController.driver is None
NoCommand == 0      \* execute_command returns None as the command
ExportPolls == 20   \* export_csv: "for _ in range(20)"
max_attempts == 3   \* click_run_button: "max_attempts = 3"
MaxCloseRetry == 2  \* close(): "if retry_count > 2" gives up
NumStrategies == 5  \* the close strategies of BaseCommand.close

ErrSend    == "Failed to send command"
ErrWindow  == "No new window created"
ErrLoading == "Loading timeout"
ErrExtract == "Data extraction failed"
ErrUnknown == "Unknown command type"
NotConnectedError == "RuntimeError: Not connected. Call connect() first."
AttributeError == "AttributeError"

KeyLen == 50          \* the dedup keys use content[:50]
FrameTrimAt == 1000   \* _process_new_frames trims ws_frames above this length
FrameKeep == 500      \* ... to its last FrameKeep frames
DefaultLimit == 100   \* query_messages / query_pdfs: limit = 100

Registered == {"DES"}          \* command types the controller user registered
CmdTypes   == {"DES", "XYZ"}   \* command types a caller may ask for

VARIABLES
  usage,       \* how the program is driven: "ctl" (controller), "api", "with", "chat"
  browsers,    \* browsers[b]: "running" or "quit", one per webdriver.Chrome()
  driver,      \* GodelTerminalController.driver (index into browsers, or NoDriver)
  hasCtl,      \* a GodelTerminalController exists (GodelAPI.controller is not None)
  monitor,     \* controller.dom_monitor is not None
  page,        \* what the driver's page shows: "none", "login", "terminal"
  dom,         \* the window elements in the DOM, in document order: [uid, id]
  nextUid,     \* number of windows the terminal has created
  tracked,     \* DOMMonitor.tracked_windows
  active,      \* GodelTerminalController.active_commands: [cid, window, window_id]
  nCmds,       \* number of command instances created
  connected,   \* GodelAPI._connected
  withPc,      \* position in a with-block: "none", "body", "exited"
  lastConnect, \* "true"/"false" as GodelAPI.connect last returned, "none"
               \* before any connect and after disconnect
  pc,          \* position of the running BaseCommand.execute
  cur,         \* the command instance being executed
  prevCount,   \* previous_count of the running execute
  polls,       \* iterations done by the running get_new_window
  via,         \* the caller of the running execute: "ctl" or "api"
  stages,      \* history: the stages the running execute entered, with outcome
  snapshot,    \* history: the windows in the DOM when previous_count was taken
  sent,        \* history: command strings the running call sent to the terminal
  returned,    \* history: how often get_new_window returned each id
  succeeded,   \* history: commands whose execute_command returned success
  apiOpened,   \* history: windows of the commands a GodelAPI method ran with success
  ret,         \* what the call that ended in this step returned or raised
  closed,      \* what the close_all_windows call of this step did
  chat_messages, \* the rows of table chat_messages, in rowid order
  pdf_downloads, \* the rows of table pdf_downloads, in rowid order
  sequence,    \* sqlite_sequence: the largest AUTOINCREMENT id per table
  ws_frames,   \* NetworkInterceptor.ws_frames of the monitored session
  domMessages, \* the chat messages the page shows, in document order
  seenIds,     \* ChatMonitorV2._seen_message_ids
  seenContents,\* seen_contents of WorkingMultiChat._monitor_channel
  saved,       \* history: the ids the saves of this step returned, per table
  queried,     \* the rows the query of this step returned
  backend,     \* db._backend: NoBackend or [path, open, schema]
  databases,   \* the SQLite files: for each path, who saved a message into it
  callerPc,    \* per get_db caller: "new", "initialising", "has_db"
  callerPath,  \* per caller: the db_path it was constructed with ("": none)
  got,         \* history: the backend as get_db returned it to each caller
  dbRet,       \* what the database call of this step did
  monPc,       \* ChatMonitor.start: "stopped", "loop", "saving", "sleep"
  processed_idx, \* processed_idx of ChatMonitor.start
  pending,     \* the rest of the slice "frames" of the running round (indices
               \* into ws_frames), first the frame being processed
  processedLog, \* history: the frames passed to _process_frame since start()
  multiPc,     \* MultiChannelChatMonitor.start: "new", "setup", "monitor", "done"
  setupPc,     \* per channel: where _setup_channel_session is
  monitorPc,   \* per channel: where _monitor_channel is
  sessions,    \* self.sessions: the channels that have a session
  monitors,    \* self.monitors: the channels that have a monitor
  results,     \* self.results: per channel "none", the error, or "captured"
  prtPc,       \* PRTCommand: "none", "click", "wait", "export", "poll", "done"
  attempt,     \* click_run_button: the attempt that runs next
  clickLog,    \* history: the clicks click_run_button has tried in this call
  timeout,     \* wait_for_completion: its timeout in seconds
  elapsed,     \* wait_for_completion: seconds since start_time
  lastPoll,    \* history: what the last poll of wait_for_completion observed
  downloads,   \* the .csv files of ~/Downloads
  existing_files, \* export_csv: the .csv files it saw before its click
  exportPolls, \* export_csv: iterations of its wait loop so far
  prtRet,      \* what the PRTCommand method that ended last returned
  closePc,     \* BaseCommand.close: "none", "enter", "strategies", "stale",
               \* "returned"
  retry_count, \* close: retry_count of the running invocation
  strategy,    \* close: the strategy that runs next
  winRef,      \* self.window: "none", "fresh" or "stale"
  hasId,       \* self.window_id is set
  tried,       \* history: the strategies this invocation has run, in order
  closeLast,   \* history: what the last strategy met
  closeRet     \* what close returned: "none" (running), "True", "False"

vars == <<usage, browsers, driver, hasCtl, monitor, page, dom, nextUid, tracked,
          active, nCmds, connected, withPc, lastConnect, pc, cur, prevCount,
          polls, via, stages, snapshot, sent, returned, succeeded, apiOpened,
          ret, closed, chat_messages, pdf_downloads, sequence, ws_frames,
          domMessages, seenIds, seenContents, saved, queried,
          backend, databases, callerPc, callerPath, got, dbRet,
          monPc, processed_idx, pending, processedLog,
          multiPc, setupPc, monitorPc, sessions, monitors, results,
          prtPc, attempt, clickLog, timeout, elapsed, lastPoll, downloads,
          existing_files, exportPolls, prtRet,
          closePc, retry_count, strategy, winRef, hasId, tried, closeLast,
          closeRet>>

\* The variables of the parts that run on their own: the get_db callers.
dbVars == <<backend, databases, callerPc, callerPath, got, dbRet>>

\* ChatMonitor.start.
monVars == <<monPc, processed_idx, pending, processedLog>>

\* MultiChannelChatMonitor.
multiVars == <<multiPc, setupPc, monitorPc, sessions, monitors, results>>

\* PRTCommand.
runVars == <<attempt, clickLog>>
waitVars == <<timeout, elapsed, lastPoll>>
exportVars == <<downloads, existing_files, exportPolls>>
prtVars == <<prtPc, runVars, waitVars, exportVars, prtRet>>

\* BaseCommand.close, step by step.
closeVars == <<closePc, retry_count, strategy, winRef, hasId, tried,
               closeLast, closeRet>>

sideVars == <<dbVars, monVars, multiVars, prtVars, closeVars>>

\* What the steps of one part leave alone of the other parts.
notDbVars == <<monVars, multiVars, prtVars, closeVars>>
notMonVars == <<dbVars, multiVars, prtVars, closeVars>>
notMultiVars == <<dbVars, monVars, prtVars, closeVars>>
notPrtVars == <<dbVars, monVars, multiVars, closeVars>>
notCloseVars == <<dbVars, monVars, multiVars, prtVars>>

browserVars == <<browsers, driver, hasCtl, monitor, page>>
execVars    == <<pc, cur, prevCount, polls, via, stages, snapshot, sent>>
apiVars     == <<connected, withPc, lastConnect>>
terminalVars == <<usage, browsers, driver, hasCtl, monitor, page, dom, nextUid,
                  tracked, active, nCmds, connected, withPc, lastConnect, pc,
                  cur, prevCount, polls, via, stages, snapshot, sent, returned,
                  succeeded, apiOpened, ret, closed>>
storeVars    == <<chat_messages, pdf_downloads, sequence, ws_frames,
                  domMessages, seenIds, seenContents, saved, queried>>

\* What the chat monitors leave alone, and what the terminal layer does.
termVars    == <<terminalVars, sideVars>>
chatVars    == <<storeVars, sideVars>>

\* ------------------------------------------------------------- helpers
Range(s) == {s[i] : i \in 1..Len(s)}

Last(s) == s[Len(s)]

RemoveAt(s, i) == [j \in 1..(Len(s) - 1) |-> IF j < i THEN s[j] ELSE s[j + 1]]

Uids(d) == {d[i].uid : i \in 1..Len(d)}

Ids(d) == {d[i].id : i \in 1..Len(d)}

\* The DOM without the window element uid.
RemoveWindow(d, uid) ==
  IF uid \in Uids(d)
  THEN RemoveAt(d, CHOOSE i \in 1..Len(d) : d[i].uid = uid)
  ELSE d

BrowserAlive == driver # NoDriver /\ browsers[driver] = "running"

NoResult == [op |-> "none", cid |-> 0, success |-> FALSE, error |-> "",
             data |-> FALSE, stages |-> <<>>, cmdRet |-> NoCommand,
             raised |-> "", conn |-> "none", sent |-> 0, ctype |-> "",
             available |-> {}]

NoClose == [op |-> "none", before |-> <<>>, called |-> <<>>, after |-> <<>>,
            apiBefore |-> {}, left |-> {}]

NoCmd == [cid |-> 0, window |-> NoWindow, window_id |-> NoWindow,
          type |-> ""]

NoReturns == [i \in WindowIds |-> 0]

\* No call returns and no close_all_windows runs in this step.
Quiet == ret' = NoResult /\ closed' = NoClose

\* ------------------------------------------------------------- Init
NoSaves == [msg |-> <<>>, pdf |-> <<>>]

\* The terminal side before anything ran, driven as usage says.
TermInit(u) ==
  /\ usage = u
  /\ browsers = <<>>
  /\ driver = NoDriver
  /\ hasCtl = (u = "ctl")
  /\ monitor = FALSE
  /\ page = "none"
  /\ dom = <<>>
  /\ nextUid = 0
  /\ tracked = {}
  /\ active = <<>>
  /\ nCmds = 0
  /\ connected = FALSE
  /\ withPc = "none"
  /\ lastConnect = "none"
  /\ pc = "idle"
  /\ cur = NoCmd
  /\ prevCount = 0
  /\ polls = 0
  /\ via = "none"
  /\ stages = <<>>
  /\ snapshot = {}
  /\ sent = 0
  /\ returned = NoReturns
  /\ succeeded = <<>>
  /\ apiOpened = {}
  /\ ret = NoResult
  /\ closed = NoClose

\* A database just made by SCHEMA_SQL and monitors that have seen nothing.
ChatInit ==
  /\ chat_messages = <<>>
  /\ pdf_downloads = <<>>
  /\ sequence = [msg |-> 0, pdf |-> 0]
  /\ ws_frames = <<>>
  /\ domMessages = <<>>
  /\ seenIds = {}
  /\ seenContents = {}
  /\ saved = NoSaves
  /\ queried = <<>>

\* db.py before the first get_db: _backend is None (line 174) and no file has
\* been written; the callers were constructed with the paths given.
NoBackend == [exists |-> FALSE, path |-> "", open |-> FALSE, schema |-> FALSE]

DB_PATH == "godel.db"

Paths == {"", "p.db"}      \* db_path arguments: None or a path

Callers == 1..MaxCallers

NoDbCall == [op |-> "none", caller |-> 0, wanted |-> "", stored |-> "",
             raised |-> ""]

DbInit(paths) ==
  /\ backend = NoBackend
  /\ databases = [f \in {DB_PATH, "p.db"} |-> [schema |-> FALSE, rows |-> <<>>]]
  /\ callerPc = [c \in Callers |-> "new"]
  /\ callerPath = paths
  /\ got = [c \in Callers |-> NoBackend]
  /\ dbRet = NoDbCall

\* A ChatMonitor that has not been started.
MonInit ==
  /\ monPc = "stopped"
  /\ processed_idx = 0
  /\ pending = <<>>
  /\ processedLog = <<>>

\* The channels of a MultiChannelChatMonitor.
ChannelIds == 1..MaxChannels

\* MultiChannelChatMonitor.__init__: no session, no monitor, no result.
MultiInit ==
  /\ multiPc = "new"
  /\ setupPc = [c \in ChannelIds |-> "new"]
  /\ monitorPc = [c \in ChannelIds |-> "none"]
  /\ sessions = {}
  /\ monitors = {}
  /\ results = [c \in ChannelIds |-> "none"]

NoPoll == [bar |-> "none", found |-> "none", text |-> <<>>]

NoPrtResult == [op |-> "none", value |-> "", attempts |-> 0, elapsed |-> 0]

\* The .csv files a Downloads directory may hold: one from an earlier run,
\* the one the Export click of this command produces, one of another download.
OldCsv == "old.csv"
OwnCsv == "prt_export.csv"
OtherCsv == "other.csv"

\* A PRTCommand at position at, its window found, its timeout t, and the
\* Downloads directory holding the files d.
PrtInit(at, t, d) ==
  /\ prtPc = at
  /\ attempt = 1
  /\ clickLog = <<>>
  /\ timeout = t
  /\ elapsed = 0
  /\ lastPoll = NoPoll
  /\ downloads = d
  /\ existing_files = {}
  /\ exportPolls = 0
  /\ prtRet = NoPrtResult

\* A command whose window reference is w and whose close() is at position
\* at, with retry_count = 0.
CloseInit(at, w, id) ==
  /\ closePc = at
  /\ retry_count = 0
  /\ strategy = 1
  /\ winRef = w
  /\ hasId = id
  /\ tried = <<>>
  /\ closeLast = "none"
  /\ closeRet = "none"

\* The parts a specification does not run, at rest.
SideInit ==
  /\ DbInit([c \in Callers |-> ""])
  /\ MonInit
  /\ MultiInit
  /\ PrtInit("none", 0, {})
  /\ CloseInit("none", "none", FALSE)

\* A program that drives a GodelTerminalController, as main.py does.
Init == TermInit("ctl") /\ ChatInit /\ SideInit

\* A program that drives a GodelAPI, directly or through a with-block.
InitApi == (\E u \in {"api", "with"} : TermInit(u)) /\ ChatInit /\ SideInit

\* A program that runs the chat monitors of working_multichat.py.
InitChat == TermInit("chat") /\ ChatInit /\ SideInit

\* ------------------------------------------------------------- environment
\* The terminal opens a window: the page appends the new element after the
\* existing ones ("the newest window (last in list)"), with an id attribute
\* no window in the DOM currently has.
WindowAppears ==
  /\ BrowserAlive /\ page = "terminal"
  /\ nextUid < MaxWindows
  /\ \E i \in WindowIds \ Ids(dom) :
       dom' = Append(dom, [uid |-> nextUid + 1, id |-> i])
  /\ nextUid' = nextUid + 1
  /\ Quiet
  /\ UNCHANGED <<chatVars, usage, browserVars, tracked, active, nCmds, apiVars, execVars,
                 returned, succeeded, apiOpened>>

\* The user of the visible browser closes a window by hand.
UserClosesWindow ==
  /\ BrowserAlive
  /\ \E i \in 1..Len(dom) : dom' = RemoveAt(dom, i)
  /\ Quiet
  /\ UNCHANGED <<chatVars, usage, browserVars, nextUid, tracked, active, nCmds, apiVars,
                 execVars, returned, succeeded, apiOpened>>

\* ------------------------------------------------------------- DOMMonitor
\* get_current_windows: find_elements, [] on any exception (dead driver).
GetCurrentWindows == IF BrowserAlive THEN dom ELSE <<>>

\* Off by one: a window count equal to previous_count also yields a candidate.
NewWindowCandidateAtCount(current_windows, previous_count) ==
  IF Len(current_windows) >= previous_count /\ Len(current_windows) > 0
  THEN <<Last(current_windows)>>
  ELSE <<>>

\* get_new_window, lines 43-45: the candidate of one poll ([] if none).
NewWindowCandidate(current_windows, previous_count) ==
  IF Len(current_windows) > previous_count
  THEN <<Last(current_windows)>>
  ELSE <<>>

\* The tracked-id test dropped.
IsUntrackedAlways(window_id, tracked_windows) == TRUE

\* get_new_window, line 48.
IsUntracked(window_id, tracked_windows) == window_id \notin tracked_windows

\* ------------------------------------------------------------- BaseCommand
\* execute, lines 102-148: the error each stage returns when it fails.
StageError(name) ==
  CASE name = "send"    -> ErrSend
    [] name = "window"  -> ErrWindow
    [] name = "loading" -> ErrLoading
    [] name = "extract" -> ErrExtract

\* Every executed command tracked, not only the successful ones.
TrackCommandAlways(active_commands, command, success) ==
  Append(active_commands, command)

\* execute_command, lines 563-568: what is tracked and what is returned.
TrackCommand(active_commands, command, success) ==
  IF success THEN Append(active_commands, command) ELSE active_commands

ReturnedCommand(command, success) ==
  IF success THEN command.cid ELSE NoCommand

ResetExec ==
  /\ pc' = "idle"
  /\ cur' = NoCmd
  /\ prevCount' = 0
  /\ polls' = 0
  /\ via' = "none"
  /\ stages' = <<>>
  /\ snapshot' = {}
  /\ sent' = 0

\* The running execute returns result (success, error) after stages stg; the
\* caller (execute_command or a GodelAPI method) finishes with it.
Finish(success, error, stg) ==
  /\ ResetExec
  /\ ret' = [op |-> via, cid |-> cur.cid, success |-> success,
             error |-> error, data |-> success, stages |-> stg,
             cmdRet |-> IF via = "ctl"
                        THEN ReturnedCommand(cur, success) ELSE NoCommand,
             raised |-> "", conn |-> lastConnect, sent |-> sent,
             ctype |-> cur.type, available |-> {}]
  /\ closed' = NoClose
  /\ active' = IF via = "ctl" THEN TrackCommand(active, cur, success) ELSE active
  /\ succeeded' = IF via = "ctl" /\ success
                  THEN Append(succeeded, cur.cid) ELSE succeeded
  /\ apiOpened' = IF via = "api" /\ success
                  THEN apiOpened \cup {cur.window} ELSE apiOpened

\* execute, lines 93-96: the command string and the previous_count snapshot.
\* A controller that never connected has dom_monitor None: AttributeError.
BeginExecute(caller, command_type) ==
  /\ pc = "idle"
  /\ nCmds < MaxCmds
  /\ nCmds' = nCmds + 1
  /\ closed' = NoClose
  /\ IF monitor
     THEN /\ cur' = [NoCmd EXCEPT !.cid = nCmds + 1, !.type = command_type]
          /\ prevCount' = Len(GetCurrentWindows)
          /\ snapshot' = Uids(GetCurrentWindows)
          /\ pc' = "send"
          /\ polls' = 0
          /\ via' = caller
          /\ stages' = <<>>
          /\ sent' = 0
          /\ ret' = NoResult
     ELSE /\ ret' = [NoResult EXCEPT !.op = caller, !.cid = nCmds + 1,
                                     !.raised = AttributeError,
                                     !.conn = lastConnect,
                                     !.ctype = command_type]
          /\ UNCHANGED execVars
  /\ UNCHANGED <<chatVars, usage, browserVars, dom, nextUid, tracked, active, apiVars,
                 returned, succeeded, apiOpened>>

\* execute, lines 102-107, and send_command: typing into #terminal-input
\* fails (returns False) when the element is missing or the driver is gone.
Send ==
  /\ pc = "send"
  /\ \E ok \in BOOLEAN :
       /\ ok => (BrowserAlive /\ page = "terminal")
       /\ LET stg == Append(stages, [name |-> "send", ok |-> ok]) IN
          IF ok
          THEN /\ sent' = sent + 1
               /\ pc' = "poll"
               /\ stages' = stg
               /\ Quiet
               /\ UNCHANGED <<cur, prevCount, polls, via, snapshot, active,
                              succeeded, apiOpened>>
          ELSE Finish(FALSE, StageError("send"), stg)
  /\ UNCHANGED <<chatVars, usage, browserVars, dom, nextUid, tracked, nCmds, apiVars,
                 returned>>

\* One iteration of the get_new_window loop (lines 40-52) and, when it
\* returns a window, execute lines 111-121.
Poll ==
  /\ pc = "poll"
  /\ polls < MaxPolls
  /\ LET current_windows == GetCurrentWindows
         candidate == NewWindowCandidate(current_windows, prevCount)
         stg == IF polls = 0
                THEN Append(stages, [name |-> "window", ok |-> TRUE])
                ELSE stages
     IN IF candidate # <<>> /\ IsUntracked(candidate[1].id, tracked)
        THEN /\ tracked' = tracked \cup {candidate[1].id}
             /\ cur' = [cur EXCEPT !.window = candidate[1].uid,
                                   !.window_id = candidate[1].id]
             /\ returned' = [returned EXCEPT ![candidate[1].id] = @ + 1]
             /\ pc' = "load"
             /\ stages' = stg
             /\ UNCHANGED polls
        ELSE /\ polls' = polls + 1
             /\ stages' = stg
             /\ UNCHANGED <<tracked, cur, returned, pc>>
  /\ Quiet
  /\ UNCHANGED <<chatVars, usage, browserVars, dom, nextUid, active, nCmds, apiVars,
                 prevCount, via, snapshot, sent, succeeded, apiOpened>>

\* get_new_window line 54 (timeout) and execute lines 113-118.
PollTimeout ==
  /\ pc = "poll"
  /\ polls >= 1
  /\ Finish(FALSE, StageError("window"),
            [stages EXCEPT ![Len(stages)] = [name |-> "window", ok |-> FALSE]])
  /\ UNCHANGED <<chatVars, usage, browserVars, dom, nextUid, tracked, nCmds, apiVars,
                 returned>>

\* The result of wait_for_loading ignored: extraction follows a timeout too.
LoadIgnoringTimeout ==
  /\ pc = "load"
  /\ \E ok \in BOOLEAN :
       /\ pc' = "extract"
       /\ stages' = Append(stages, [name |-> "loading", ok |-> ok])
  /\ Quiet
  /\ UNCHANGED <<cur, prevCount, polls, via, snapshot, sent, active,
                 succeeded, apiOpened>>
  /\ UNCHANGED <<chatVars, usage, browserVars, dom, nextUid, tracked, nCmds,
                 apiVars, returned>>

\* execute, lines 125-131, and wait_for_loading.
Load ==
  /\ pc = "load"
  /\ \E ok \in BOOLEAN :
       LET stg == Append(stages, [name |-> "loading", ok |-> ok]) IN
       IF ok
       THEN /\ pc' = "extract"
            /\ stages' = stg
            /\ Quiet
            /\ UNCHANGED <<cur, prevCount, polls, via, snapshot, sent, active,
                           succeeded, apiOpened>>
       ELSE Finish(FALSE, StageError("loading"), stg)
  /\ UNCHANGED <<chatVars, usage, browserVars, dom, nextUid, tracked, nCmds, apiVars,
                 returned>>

\* execute, lines 135-148: extract_data returns or raises.
Extract ==
  /\ pc = "extract"
  /\ \E ok \in BOOLEAN :
       Finish(ok, IF ok THEN "" ELSE StageError("extract"),
              Append(stages, [name |-> "extract", ok |-> ok]))
  /\ UNCHANGED <<chatVars, usage, browserVars, dom, nextUid, tracked, nCmds, apiVars,
                 returned>>

\* ------------------------------------------------------------- close
\* A WebElement reference is stale once its element left the DOM.
IsStaleRef(cmd, d) == cmd.window \notin Uids(d)

\* "for win in windows: if win.get_attribute('id') == self.window_id".
FindById(d, window_id) ==
  d[CHOOSE i \in 1..Len(d) :
      /\ d[i].id = window_id
      /\ \A j \in 1..(i - 1) : d[j].id # window_id].uid

\* close, lines 161-175: refresh a stale reference before trying to close.
RefreshRef(cmd, d) ==
  IF cmd.window_id # NoWindow /\ IsStaleRef(cmd, d) /\ cmd.window_id \in Ids(d)
  THEN [cmd EXCEPT !.window = FindById(d, cmd.window_id)]
  ELSE cmd

CloseFailed(cmd, retry) ==
  [ok |-> FALSE, cmd |-> cmd, clicked |-> NoWindow, retries |-> retry,
   strategy |-> 0]

\* BaseCommand.close(retry_count). found: the first strategy whose selector
\* finds a close element (0: none does); midStale: how many attempts the
\* window element is re-rendered under (it goes stale, the window stays in
\* the DOM) while the strategies run.
RECURSIVE Close(_, _, _, _, _)
Close(cmd, d, retry, found, midStale) ==
  IF retry > MaxCloseRetry THEN CloseFailed(cmd, retry)
  ELSE IF cmd.window = NoWindow THEN CloseFailed(cmd, retry)
  ELSE LET c1 == RefreshRef(cmd, d) IN
       IF IsStaleRef(c1, d) \/ midStale > 0
       THEN \* except StaleElementReferenceException, lines 247-260
            IF c1.window_id # NoWindow /\ c1.window_id \in Ids(d)
            THEN Close([c1 EXCEPT !.window = FindById(d, c1.window_id)],
                       d, retry + 1, found,
                       IF midStale > 0 THEN midStale - 1 ELSE 0)
            ELSE CloseFailed(c1, retry)
       ELSE IF found \in 1..NumStrategies
            THEN [ok |-> TRUE, cmd |-> c1, clicked |-> c1.window,
                  retries |-> retry, strategy |-> found]
            ELSE CloseFailed(c1, retry)

\* The cases of one close(): no strategy or the last one finds a close
\* element; the element is never, once, or on every attempt re-rendered.
CloseInputs == [found : {0, NumStrategies},
                midStale : {0, 1, MaxCloseRetry + 1}]

\* close_all_windows, lines 572-573: close() on each active command in order.
\* Returns the command instances and the DOM after the loop.
RECURSIVE CloseEach(_, _, _, _)
CloseEach(list, k, d, inputs) ==
  IF k > Len(list) THEN [cmds |-> list, dom |-> d]
  ELSE LET r == Close(list[k], d, 0, inputs[k].found, inputs[k].midStale)
       IN CloseEach([list EXCEPT ![k] = r.cmd], k + 1,
                    IF r.ok THEN RemoveWindow(d, r.clicked) ELSE d, inputs)

\* close_all_windows, line 574.
ClearedCommands(active_commands) == <<>>

\* GodelTerminalController.close_all_windows on behalf of caller op; r is
\* what the loop of lines 572-573 made of the commands and of the DOM.
ControllerCloseAll(op, r) ==
  /\ active' = ClearedCommands(active)
  /\ succeeded' = <<>>
  /\ closed' = [op |-> op,
                before |-> [k \in 1..Len(active) |-> active[k].cid],
                called |-> [k \in 1..Len(active) |-> active[k].window],
                after |-> ClearedCommands(active),
                apiBefore |-> apiOpened,
                left |-> {active[k].window : k \in 1..Len(active)}
                         \cap Uids(r.dom)]

\* ------------------------------------------------------------- controller
ConnectOutcomes == {"chrome_fail", "get_fail", "ok"}

\* GodelTerminalController.connect, lines 349-360: webdriver.Chrome() raises
\* (chrome_fail), driver.get raises after the browser started (get_fail), or
\* the page is loaded and a new DOMMonitor is made (ok, showing pageAfter).
\* fresh: the controller was constructed just before (driver and dom_monitor
\* None, lines 273-274); a browser an earlier controller started is then no
\* longer referenced and keeps running.
ControllerConnect(outcome, fresh, pageAfter) ==
  IF outcome = "chrome_fail"
  THEN IF fresh
       THEN /\ driver' = NoDriver
            /\ monitor' = FALSE
            /\ page' = "none"
            /\ dom' = <<>>
            /\ tracked' = {}
            /\ returned' = NoReturns
            /\ UNCHANGED browsers
       ELSE UNCHANGED <<browsers, driver, monitor, page, dom, tracked,
                        returned>>
  ELSE /\ browsers' = Append(browsers, "running")
       /\ driver' = Len(browsers) + 1
       /\ dom' = <<>>
       /\ IF outcome = "ok"
          THEN /\ monitor' = TRUE
               /\ page' = pageAfter
               /\ tracked' = {}
               /\ returned' = NoReturns
          ELSE /\ monitor' = IF fresh THEN FALSE ELSE monitor
               /\ page' = "none"
               /\ tracked' = IF fresh THEN {} ELSE tracked
               /\ returned' = IF fresh THEN NoReturns ELSE returned

\* GodelTerminalController.disconnect, lines 367-397, from a DOM d.
ControllerDisconnect(d) ==
  IF driver = NoDriver
  THEN /\ dom' = d
       /\ UNCHANGED <<browsers, driver, page>>
  ELSE /\ browsers' = [browsers EXCEPT ![driver] = "quit"]
       /\ driver' = NoDriver
       /\ page' = "none"
       /\ dom' = <<>>

\* controller.connect() as main.py calls it, once per controller.
CtlConnect ==
  /\ usage = "ctl" /\ pc = "idle"
  /\ browsers = <<>>
  /\ \E outcome \in ConnectOutcomes :
       ControllerConnect(outcome, FALSE, "login")
  /\ Quiet
  /\ UNCHANGED <<chatVars, usage, hasCtl, nextUid, active, nCmds, apiVars, execVars,
                 succeeded, apiOpened>>

\* GodelTerminalController.login returning True; a login that raises leaves
\* the page where it was.
Login ==
  /\ usage = "ctl" /\ pc = "idle"
  /\ BrowserAlive /\ page = "login"
  /\ page' = "terminal"
  /\ Quiet
  /\ UNCHANGED <<chatVars, usage, browsers, driver, hasCtl, monitor, dom, nextUid,
                 tracked, active, nCmds, apiVars, execVars, returned,
                 succeeded, apiOpened>>

\* execute_command, line 545: the error of an unknown command type.
UnknownError(command_type) == ErrUnknown \o ": " \o command_type

\* execute_command, line 542: command_type in self.command_registry.
IsRegisteredAlways(command_type) == TRUE
IsRegistered(command_type) == command_type \in Registered

\* execute_command, lines 542-561.
ExecuteCommand ==
  /\ usage = "ctl" /\ pc = "idle"
  /\ \E command_type \in CmdTypes :
       IF ~IsRegistered(command_type)
       THEN /\ ret' = [NoResult EXCEPT !.op = "ctl",
                                       !.error = UnknownError(command_type),
                                       !.ctype = command_type,
                                       !.available = Registered]
            /\ closed' = NoClose
            /\ UNCHANGED <<chatVars, usage, browserVars, dom, nextUid, tracked, active,
                           nCmds, apiVars, execVars, returned, succeeded,
                           apiOpened>>
       ELSE BeginExecute("ctl", command_type)

\* The caller closes a command it got back from execute_command.
CommandClose ==
  /\ usage = "ctl" /\ pc = "idle"
  /\ \E k \in 1..Len(active), in \in CloseInputs :
       LET r == Close(active[k], GetCurrentWindows, 0, in.found, in.midStale)
       IN /\ active' = [active EXCEPT ![k] = r.cmd]
          /\ dom' = IF r.ok THEN RemoveWindow(dom, r.clicked) ELSE dom
  /\ Quiet
  /\ UNCHANGED <<chatVars, usage, browserVars, nextUid, tracked, nCmds, apiVars,
                 execVars, returned, succeeded, apiOpened>>

\* controller.close_all_windows() called by the controller's user.
CloseAllWindows ==
  /\ usage = "ctl" /\ pc = "idle"
  /\ \E inputs \in [1..Len(active) -> CloseInputs] :
       LET r == CloseEach(active, 1, GetCurrentWindows, inputs)
       IN /\ ControllerCloseAll("ctl", r)
          /\ dom' = IF BrowserAlive THEN r.dom ELSE dom
  /\ ret' = NoResult
  /\ UNCHANGED <<chatVars, usage, browserVars, nextUid, tracked, nCmds, apiVars,
                 execVars, returned, apiOpened>>

CtlDisconnect ==
  /\ usage = "ctl" /\ pc = "idle"
  /\ driver # NoDriver
  /\ ControllerDisconnect(dom)
  /\ Quiet
  /\ UNCHANGED <<chatVars, usage, hasCtl, monitor, nextUid, tracked, active, nCmds,
                 apiVars, execVars, returned, succeeded, apiOpened>>

\* ------------------------------------------------------------- GodelAPI
ApiOutcomes == {"chrome_fail", "get_fail", "login_fail", "ok"}

\* connect, lines 71-75: _connected after connect() ended with outcome.
ConnectedAfter(outcome, was) == IF outcome = "ok" THEN TRUE ELSE was

\* GodelAPI.connect, lines 63-75: a new controller, connect(), login(),
\* load_layout(); any exception is caught and False returned.
ApiConnectBody(outcome) ==
  /\ hasCtl' = TRUE
  /\ active' = <<>>
  /\ succeeded' = <<>>
  /\ apiOpened' = {}
  /\ IF outcome \in {"login_fail", "ok"}
     THEN ControllerConnect("ok", TRUE,
                            IF outcome = "ok" THEN "terminal" ELSE "login")
     ELSE ControllerConnect(outcome, TRUE, "none")
  /\ connected' = ConnectedAfter(outcome, connected)
  /\ lastConnect' = IF outcome = "ok" THEN "true" ELSE "false"
  /\ ret' = [NoResult EXCEPT !.op = "connect", !.success = (outcome = "ok")]
  /\ closed' = NoClose

\* disconnect guarded by _connected instead of the controller.
ShouldDisconnectIfConnected == connected

\* disconnect, line 79: the guard of GodelAPI.disconnect.
ShouldDisconnect == hasCtl

\* GodelAPI.disconnect, lines 79-83.
ApiDisconnectBody ==
  IF ShouldDisconnect
  THEN /\ \E inputs \in [1..Len(active) -> CloseInputs] :
            LET r == CloseEach(active, 1, GetCurrentWindows, inputs)
            IN /\ ControllerCloseAll("disconnect", r)
               /\ ControllerDisconnect(r.dom)
       /\ hasCtl' = FALSE
       /\ connected' = FALSE
       /\ monitor' = FALSE
       /\ tracked' = {}
       /\ returned' = NoReturns
       /\ apiOpened' = {}
  ELSE /\ closed' = NoClose
       /\ UNCHANGED <<browsers, driver, page, dom, active, succeeded, hasCtl,
                      connected, monitor, tracked, returned, apiOpened>>

\* api.connect() called directly.
ApiConnect ==
  /\ usage = "api" /\ pc = "idle"
  /\ Len(browsers) < MaxBrowsers
  /\ \E outcome \in ApiOutcomes : ApiConnectBody(outcome)
  /\ UNCHANGED <<chatVars, usage, withPc, nextUid, nCmds, execVars>>

\* api.disconnect() called directly.
ApiDisconnect ==
  /\ usage = "api" /\ pc = "idle"
  /\ ApiDisconnectBody
  /\ lastConnect' = "none"
  /\ ret' = [NoResult EXCEPT !.op = "disconnect"]
  /\ UNCHANGED <<chatVars, usage, withPc, nextUid, nCmds, execVars>>

\* _ensure_connected, line 87.
NotConnected == ~connected \/ ~hasCtl

\* des, g, gip, qm: _ensure_connected, then a command instance of its own.
ApiCommand ==
  /\ usage = "api" \/ (usage = "with" /\ withPc = "body")
  /\ pc = "idle"
  /\ IF NotConnected
     THEN /\ ret' = [NoResult EXCEPT !.op = "api",
                                     !.raised = NotConnectedError,
                                     !.conn = lastConnect]
          /\ closed' = NoClose
          /\ UNCHANGED <<chatVars, usage, browserVars, dom, nextUid, tracked, active,
                         nCmds, apiVars, execVars, returned, succeeded,
                         apiOpened>>
     ELSE BeginExecute("api", "DES")

\* GodelAPI.close_all_windows, lines 203-204.
ApiCloseAllWindows ==
  /\ usage = "api" \/ (usage = "with" /\ withPc = "body")
  /\ pc = "idle"
  /\ hasCtl
  /\ \E inputs \in [1..Len(active) -> CloseInputs] :
       LET r == CloseEach(active, 1, GetCurrentWindows, inputs)
       IN /\ ControllerCloseAll("api", r)
          /\ dom' = IF BrowserAlive THEN r.dom ELSE dom
  /\ apiOpened' = {}
  /\ ret' = NoResult
  /\ UNCHANGED <<chatVars, usage, browserVars, nextUid, tracked, nCmds, apiVars,
                 execVars, returned>>

\* __enter__: connect(), whatever it returns, then the body runs.
WithEnter ==
  /\ usage = "with" /\ withPc = "none"
  /\ \E outcome \in ApiOutcomes : ApiConnectBody(outcome)
  /\ withPc' = "body"
  /\ UNCHANGED <<chatVars, usage, nextUid, nCmds, execVars>>

\* __exit__: the body returned or raised; disconnect().
WithExit ==
  /\ usage = "with" /\ withPc = "body"
  /\ pc = "idle"
  /\ ApiDisconnectBody
  /\ lastConnect' = "none"
  /\ withPc' = "exited"
  /\ ret' = [NoResult EXCEPT !.op = "exit", !.conn = lastConnect]
  /\ UNCHANGED <<chatVars, usage, nextUid, nCmds, execVars>>

\* ------------------------------------------------------------- db.py
\* "INSERT OR REPLACE" on (channel, sender, content): an equal row is deleted
\* before the new one is inserted.
SaveMessageReplacing(table, seq, channel, sender, content) ==
  [table |-> Append(SelectSeq(table, LAMBDA r : ~(/\ r.channel = channel
                                                   /\ r.sender = sender
                                                   /\ r.content = content)),
                    [id |-> seq + 1, channel |-> channel, sender |-> sender,
                     content |-> content]),
   seq |-> seq + 1,
   lastrowid |-> seq + 1]

\* SQLiteBackend.save_message: one INSERT into chat_messages; the primary key
\* is AUTOINCREMENT, one more than the largest id the table ever held.
SaveMessage(table, seq, channel, sender, content) ==
  [table |-> Append(table, [id |-> seq + 1, channel |-> channel,
                            sender |-> sender, content |-> content]),
   seq |-> seq + 1,
   lastrowid |-> seq + 1]

\* SQLiteBackend.save_pdf_record: one INSERT into pdf_downloads.
SavePdfRecord(table, seq, ticker) ==
  [table |-> Append(table, [id |-> seq + 1, ticker |-> ticker]),
   seq |-> seq + 1,
   lastrowid |-> seq + 1]

Reverse(q) == [i \in 1..Len(q) |-> q[Len(q) + 1 - i]]

Take(q, n) == SubSeq(q, 1, IF Len(q) < n THEN Len(q) ELSE n)

\* query_messages: rows of the channel (all rows for None), newest first, at
\* most limit of them. Rows are stamped when they are inserted, so timestamp
\* order is rowid order.
QueryMessages(table, channel, limit) ==
  Take(Reverse(SelectSeq(table, LAMBDA r : channel = "" \/ r.channel = channel)),
       limit)

\* query_pdfs: rows of the ticker (all rows for None), newest first.
QueryPdfs(table, ticker, limit) ==
  Take(Reverse(SelectSeq(table, LAMBDA r : ticker = "" \/ r.ticker = ticker)),
       limit)

\* ------------------------------------------------------------- chat monitors
Pad == [i \in 1..KeyLen |-> 0]

LongA == Pad \o <<1>>    \* two contents that agree on their first 50 characters
LongB == Pad \o <<2>>

Contents == {LongA, LongB}

MonitoredChannel == "general"   \* WorkingMultiChat monitors one channel per session

\* str.lower() on the channel names used here.
Lower(channel) == IF channel = "General" THEN "general" ELSE channel

\* content[:50]
Prefix(content) == Take(content, KeyLen)

\* What _extract_message makes of a frame: a message with an id (0: none), a
\* channel, a sender and a content; or nothing (not JSON, typing, presence).
NonMessage == [msg |-> FALSE, id |-> 0, channel |-> "", sender |-> "",
               content |-> <<>>]

Message(id, channel, content) ==
  [msg |-> TRUE, id |-> id, channel |-> channel, sender |-> "alice",
   content |-> content]

Frames ==
  {NonMessage, Message(0, "General", LongA), Message(0, "biotech", LongA),
   Message(7, "general", LongB)}

\* _process_frame, line 133: msg.get("id") or f"{sender}:{content[:50]}".
FrameKey(m) ==
  IF m.id # 0 THEN <<"id", m.id>> ELSE <<"key", m.sender, Prefix(m.content)>>

\* _monitor_channel, line 175: f"{channel}:{sender}:{content[:50]}".
DomKey(channel, m) == <<channel, m.sender, Prefix(m.content)>>

\* ChatMonitorV2._process_frame on state st = [seen, table, seq, ids].
ProcessFrame(frame, st) ==
  IF ~frame.msg THEN st
  ELSE IF FrameKey(frame) \in st.seen THEN st
  ELSE LET seen1 == st.seen \cup {FrameKey(frame)}
           channel == Lower(frame.channel)
       IN IF channel # MonitoredChannel
          THEN [st EXCEPT !.seen = seen1]
          ELSE LET r == SaveMessage(st.table, st.seq, channel, frame.sender,
                                    frame.content)
               IN [seen |-> seen1, table |-> r.table, seq |-> r.seq,
                   ids |-> Append(st.ids, r.lastrowid)]

\* _process_new_frames, lines 106-107: every frame in ws_frames, in order.
RECURSIVE ProcessFrames(_, _, _)
ProcessFrames(frames, k, st) ==
  IF k > Len(frames) THEN st
  ELSE ProcessFrames(frames, k + 1, ProcessFrame(frames[k], st))

\* _process_new_frames, lines 111-112.
TrimFrames(frames) ==
  IF Len(frames) > FrameTrimAt
  THEN SubSeq(frames, Len(frames) - FrameKeep + 1, Len(frames))
  ELSE frames

\* _monitor_channel, lines 173-191, for one message of the DOM.
ProcessDomMessage(m, st) ==
  IF DomKey(MonitoredChannel, m) \in st.seen THEN st
  ELSE LET r == SaveMessage(st.table, st.seq, MonitoredChannel, m.sender,
                            m.content)
       IN [seen |-> st.seen \cup {DomKey(MonitoredChannel, m)},
           table |-> r.table, seq |-> r.seq,
           ids |-> Append(st.ids, r.lastrowid)]

RECURSIVE ProcessDomMessages(_, _, _)
ProcessDomMessages(messages, k, st) ==
  IF k > Len(messages) THEN st
  ELSE ProcessDomMessages(messages, k + 1, ProcessDomMessage(messages[k], st))

ChatQuiet == saved' = NoSaves /\ queried' = <<>>

\* The interceptor's WebSocket listener appends a frame.
FrameArrives ==
  /\ Len(ws_frames) < MaxFrames
  /\ \E f \in Frames : ws_frames' = Append(ws_frames, f)
  /\ ChatQuiet
  /\ UNCHANGED <<termVars, chat_messages, pdf_downloads, sequence, domMessages,
                 seenIds, seenContents>>

\* The page of the monitored channel shows one more message.
DomShowsMessage ==
  /\ Len(domMessages) < MaxDomMsgs
  /\ \E c \in Contents :
       domMessages' = Append(domMessages, [sender |-> "alice", content |-> c])
  /\ ChatQuiet
  /\ UNCHANGED <<termVars, chat_messages, pdf_downloads, sequence, ws_frames,
                 seenIds, seenContents>>

\* One round of the ChatMonitorV2.start loop: _process_new_frames.
ProcessNewFrames ==
  /\ ws_frames # <<>>
  /\ LET st == ProcessFrames(ws_frames, 1,
                             [seen |-> seenIds, table |-> chat_messages,
                              seq |-> sequence.msg, ids |-> <<>>])
     IN /\ Len(st.table) + Len(pdf_downloads) <= MaxRows
        /\ seenIds' = st.seen
        /\ chat_messages' = st.table
        /\ sequence' = [sequence EXCEPT !.msg = st.seq]
        /\ saved' = [msg |-> st.ids, pdf |-> <<>>]
  /\ ws_frames' = TrimFrames(ws_frames)
  /\ queried' = <<>>
  /\ UNCHANGED <<termVars, pdf_downloads, domMessages, seenContents>>

\* One round of the DOM poll loop of _monitor_channel.
PollDomMessages ==
  /\ domMessages # <<>>
  /\ LET st == ProcessDomMessages(domMessages, 1,
                                  [seen |-> seenContents,
                                   table |-> chat_messages,
                                   seq |-> sequence.msg, ids |-> <<>>])
     IN /\ Len(st.table) + Len(pdf_downloads) <= MaxRows
        /\ seenContents' = st.seen
        /\ chat_messages' = st.table
        /\ sequence' = [sequence EXCEPT !.msg = st.seq]
        /\ saved' = [msg |-> st.ids, pdf |-> <<>>]
  /\ queried' = <<>>
  /\ UNCHANGED <<termVars, pdf_downloads, ws_frames, domMessages, seenIds>>

\* The monitors are started again on the same database: new ChatMonitorV2
\* and a new _monitor_channel call (empty seen sets), interceptor.clear().
RestartMonitors ==
  /\ seenIds' = {}
  /\ seenContents' = {}
  /\ ws_frames' = <<>>
  /\ ChatQuiet
  /\ UNCHANGED <<termVars, chat_messages, pdf_downloads, sequence, domMessages>>

\* A download is logged: db.save_pdf_record.
SavePdf ==
  /\ Len(chat_messages) + Len(pdf_downloads) < MaxRows
  /\ LET r == SavePdfRecord(pdf_downloads, sequence.pdf, "AAPL")
     IN /\ pdf_downloads' = r.table
        /\ sequence' = [sequence EXCEPT !.pdf = r.seq]
        /\ saved' = [msg |-> <<>>, pdf |-> <<r.lastrowid>>]
  /\ queried' = <<>>
  /\ UNCHANGED <<termVars, chat_messages, ws_frames, domMessages, seenIds,
                 seenContents>>

\* db.query_messages(channel, limit=...).
QueryMessagesCall ==
  /\ chat_messages # <<>>
  /\ \E channel \in {"", "general"}, limit \in {1, DefaultLimit} :
       queried' = QueryMessages(chat_messages, channel, limit)
  /\ saved' = NoSaves
  /\ UNCHANGED <<termVars, chat_messages, pdf_downloads, sequence, ws_frames,
                 domMessages, seenIds, seenContents>>

\* db.query_pdfs(ticker, limit=...).
QueryPdfsCall ==
  /\ pdf_downloads # <<>>
  /\ \E ticker \in {"", "AAPL"}, limit \in {1, DefaultLimit} :
       queried' = QueryPdfs(pdf_downloads, ticker, limit)
  /\ saved' = NoSaves
  /\ UNCHANGED <<termVars, chat_messages, pdf_downloads, sequence, ws_frames,
                 domMessages, seenIds, seenContents>>

\* ------------------------------------------------------------- get_db
\* SQLiteBackend.__init__, line 97: db_path or str(DB_PATH).
EffectivePath(db_path) == IF db_path = "" THEN DB_PATH ELSE db_path

\* get_db, line 180: "if _backend is None".
NeedsNewBackend(b, db_path) == ~b.exists

\* get_db up to its first suspension: a caller that finds _backend set
\* returns it at once; the one that finds None stores a new SQLiteBackend in
\* _backend and awaits its init(), whose "await aiosqlite.connect" (line
\* 101) suspends it while other coroutines run.
GetDb(c) ==
  /\ callerPc[c] = "new"
  /\ IF NeedsNewBackend(backend, callerPath[c])
     THEN /\ backend' = [exists |-> TRUE,
                         path |-> EffectivePath(callerPath[c]),
                         open |-> FALSE, schema |-> FALSE]
          /\ callerPc' = [callerPc EXCEPT ![c] = "connecting"]
          /\ dbRet' = NoDbCall
          /\ UNCHANGED <<got, databases>>
     ELSE /\ callerPc' = [callerPc EXCEPT ![c] = "has_db"]
          /\ got' = [got EXCEPT ![c] = backend]
          /\ dbRet' = [NoDbCall EXCEPT !.op = "get_db", !.caller = c]
          /\ UNCHANGED <<backend, databases>>
  /\ UNCHANGED <<terminalVars, storeVars, notDbVars, callerPath>>

\* init, lines 101-102: aiosqlite.connect returns and _db is set, or it
\* raises (the file cannot be opened) and get_db raises with _backend left
\* as it is.
InitConnect(c) ==
  /\ callerPc[c] = "connecting"
  /\ \E ok \in BOOLEAN :
       IF ok
       THEN /\ backend' = [backend EXCEPT !.open = TRUE]
            /\ callerPc' = [callerPc EXCEPT ![c] = "creating"]
            /\ dbRet' = NoDbCall
       ELSE /\ callerPc' = [callerPc EXCEPT ![c] = "failed"]
            /\ dbRet' = [NoDbCall EXCEPT !.op = "get_db", !.caller = c,
                                         !.raised = "OperationalError"]
            /\ UNCHANGED backend
  /\ UNCHANGED <<terminalVars, storeVars, notDbVars, databases, callerPath, got>>

\* init, line 103: executescript(SCHEMA_SQL) has run.
InitSchema(c) ==
  /\ callerPc[c] = "creating"
  /\ backend' = [backend EXCEPT !.schema = TRUE]
  /\ databases' = [databases EXCEPT ![backend.path].schema = TRUE]
  /\ callerPc' = [callerPc EXCEPT ![c] = "committing"]
  /\ dbRet' = NoDbCall
  /\ UNCHANGED <<terminalVars, storeVars, notDbVars, callerPath, got>>

\* init, line 104, and get_db, line 183: commit is over, get_db returns.
InitReturn(c) ==
  /\ callerPc[c] = "committing"
  /\ callerPc' = [callerPc EXCEPT ![c] = "has_db"]
  /\ got' = [got EXCEPT ![c] = backend]
  /\ dbRet' = [NoDbCall EXCEPT !.op = "get_db", !.caller = c]
  /\ UNCHANGED <<terminalVars, storeVars, notDbVars, backend, databases, callerPath>>

\* A monitor stores a message through the backend get_db gave it:
\* save_message, lines 118-122, on _db None (AttributeError), on a file
\* without the tables (OperationalError), or as an INSERT into the file the
\* backend was opened on.
SaveThroughBackend(c) ==
  /\ callerPc[c] = "has_db"
  /\ Len(databases[backend.path].rows) < MaxSaves
  /\ LET call == [NoDbCall EXCEPT !.op = "save", !.caller = c,
                                  !.wanted = callerPath[c]]
     IN IF ~backend.open
        THEN /\ dbRet' = [call EXCEPT !.raised = "AttributeError"]
             /\ UNCHANGED databases
        ELSE IF ~databases[backend.path].schema
        THEN /\ dbRet' = [call EXCEPT !.raised = "OperationalError"]
             /\ UNCHANGED databases
        ELSE /\ dbRet' = [call EXCEPT !.stored = backend.path]
             /\ databases' = [databases EXCEPT
                               ![backend.path].rows = Append(@, c)]
  /\ UNCHANGED <<terminalVars, storeVars, notDbVars, backend, callerPc, callerPath, got>>

\* close_db, lines 186-190, at shutdown, when no get_db is in flight; the
\* monitors of the next run call get_db again.
CloseDb ==
  /\ backend.exists
  /\ \A c \in Callers : callerPc[c] \in {"new", "has_db", "failed"}
  /\ backend' = NoBackend
  /\ callerPc' = [c \in Callers |-> "new"]
  /\ got' = [c \in Callers |-> NoBackend]
  /\ dbRet' = [NoDbCall EXCEPT !.op = "close_db"]
  /\ UNCHANGED <<terminalVars, storeVars, notDbVars, databases, callerPath>>

\* ------------------------------------------------------------- ChatMonitor
\* ChatMonitor._process_frame, lines 91-111: the frame reaches "await
\* db.save_message" (a message of a monitored channel); any other frame
\* returns without suspending.
Stores(frame) == frame.msg /\ Lower(frame.channel) = MonitoredChannel

\* start, lines 72-73: the frames of the slice are passed to _process_frame
\* one after the other until one awaits its database write.
RECURSIVE PassFrames(_, _, _)
PassFrames(frames, pend, log) ==
  IF pend = <<>> THEN [log |-> log, pending |-> <<>>, saving |-> FALSE]
  ELSE IF Stores(frames[Head(pend)])
       THEN [log |-> Append(log, Head(pend)), pending |-> pend,
             saving |-> TRUE]
       ELSE PassFrames(frames, Tail(pend), Append(log, Head(pend)))

\* start, line 74: processed_idx = len(interceptor.ws_frames).
ProcessedIdxAfter(frames) == Len(frames)

\* The rest of a round from the frames still pending: up to the next
\* database write, or to the end of the slice and line 74.
ContinueRound(pend, log) ==
  LET r == PassFrames(ws_frames, pend, log) IN
  /\ processedLog' = r.log
  /\ pending' = r.pending
  /\ IF r.saving
     THEN monPc' = "saving" /\ UNCHANGED processed_idx
     ELSE monPc' = "sleep" /\ processed_idx' = ProcessedIdxAfter(ws_frames)

\* start, lines 60-63: processed_idx = 0, interceptor.clear().
MonStart ==
  /\ monPc = "stopped"
  /\ monPc' = "loop"
  /\ processed_idx' = 0
  /\ pending' = <<>>
  /\ processedLog' = <<>>
  /\ ws_frames' = <<>>
  /\ ChatQuiet
  /\ UNCHANGED <<terminalVars, notMonVars, chat_messages, pdf_downloads, sequence,
                 domMessages, seenIds, seenContents>>

\* start, lines 71-74: frames = ws_frames[processed_idx:], and the round up
\* to its first suspension.
MonSlice ==
  /\ monPc = "loop"
  /\ ContinueRound([k \in 1..(Len(ws_frames) - processed_idx) |->
                      processed_idx + k], processedLog)
  /\ ChatQuiet
  /\ UNCHANGED <<terminalVars, notMonVars, chat_messages, pdf_downloads, sequence,
                 ws_frames, domMessages, seenIds, seenContents>>

\* _process_frame, lines 114-131: the awaited save_message returns (or
\* raises and is logged), and the round goes on.
MonSaveDone ==
  /\ monPc = "saving"
  /\ \E ok \in BOOLEAN :
       /\ ok => Len(chat_messages) + Len(pdf_downloads) < MaxRows
       /\ LET f == ws_frames[Head(pending)]
              r == SaveMessage(chat_messages, sequence.msg, f.channel,
                               f.sender, f.content)
          IN IF ok
             THEN /\ chat_messages' = r.table
                  /\ sequence' = [sequence EXCEPT !.msg = r.seq]
                  /\ saved' = [msg |-> <<r.lastrowid>>, pdf |-> <<>>]
             ELSE /\ saved' = NoSaves
                  /\ UNCHANGED <<chat_messages, sequence>>
  /\ ContinueRound(Tail(pending), processedLog)
  /\ queried' = <<>>
  /\ UNCHANGED <<terminalVars, notMonVars, pdf_downloads, ws_frames, domMessages,
                 seenIds, seenContents>>

\* start, lines 76-79: the sleep is over; the loop goes on, or the duration
\* has elapsed (or stop() was called) and the monitor stops.
MonWake ==
  /\ monPc = "sleep"
  /\ \E more \in BOOLEAN : monPc' = IF more THEN "loop" ELSE "stopped"
  /\ ChatQuiet
  /\ UNCHANGED <<terminalVars, notMonVars, processed_idx, pending, processedLog,
                 chat_messages, pdf_downloads, sequence, ws_frames,
                 domMessages, seenIds, seenContents>>

\* ------------------------------------------------------------- multi_chat
\* _setup_channel_session, lines 81-85: the awaited steps of a setup, in
\* order: create_session, init_page, login, load_layout.
SetupSteps == <<"create", "init_page", "login", "layout">>

\* Where a setup stands after step k succeeded.
AfterStep(k) == IF k < Len(SetupSteps) THEN SetupSteps[k] ELSE "ready"

\* The step a setup at position at runs next (0: none).
StepAt(at) ==
  IF at = "task" THEN 1
  ELSE IF \E k \in 1..(Len(SetupSteps) - 1) : SetupSteps[k] = at
       THEN 1 + CHOOSE k \in 1..(Len(SetupSteps) - 1) : SetupSteps[k] = at
       ELSE 0

\* start, lines 48-58: the manager starts, and one setup task per channel is
\* gathered.
MultiStart ==
  /\ multiPc = "new"
  /\ multiPc' = "setup"
  /\ setupPc' = [c \in ChannelIds |-> "task"]
  /\ UNCHANGED <<terminalVars, storeVars, notMultiVars, monitorPc, sessions,
                 monitors, results>>

\* _setup_channel_session, lines 93-95: the error entry of a failed step.
ErrorOf(k) == SetupSteps[k] \o " failed"

\* _setup_channel_session, lines 80-95: the line at which the session of a
\* channel is stored in self.sessions is the one after step "layout".
RegistersSessionEarly(k) == k = 1
RegistersSession(k) == k = Len(SetupSteps)

\* _setup_channel_session, lines 80-87 and 93-95: one awaited step of the
\* setup of channel c returns or raises.
SetupStep(c) ==
  /\ multiPc = "setup"
  /\ StepAt(setupPc[c]) # 0
  /\ LET k == StepAt(setupPc[c]) IN
     \E ok \in BOOLEAN :
       /\ setupPc' = [setupPc EXCEPT ![c] = IF ok THEN AfterStep(k)
                                            ELSE "failed"]
       /\ sessions' = IF ok /\ RegistersSession(k) THEN sessions \cup {c}
                      ELSE sessions
       /\ results' = IF ok THEN results
                     ELSE [results EXCEPT ![c] = ErrorOf(k)]
  /\ UNCHANGED <<terminalVars, storeVars, notMultiVars, multiPc, monitorPc,
                 monitors>>

\* _open_chat_window, lines 97-160: returns True or False and raises nothing.
OpenChatWindow(c) ==
  /\ multiPc = "setup"
  /\ setupPc[c] = "ready"
  /\ \E opened \in BOOLEAN :
       setupPc' = [setupPc EXCEPT ![c] = IF opened THEN "opened"
                                        ELSE "unopened"]
  /\ UNCHANGED <<terminalVars, storeVars, notMultiVars, multiPc, monitorPc,
                 sessions, monitors, results>>

\* A setup task that is over.
SetupOver(at) == at \in {"opened", "unopened", "failed"}

\* start, lines 58-75, and _monitor_channel, lines 164-171: the gather of the
\* setups returns; a monitor task is made for every channel in self.sessions
\* and all of them are gathered.
StartMonitors ==
  /\ multiPc = "setup"
  /\ \A c \in ChannelIds : SetupOver(setupPc[c])
  /\ multiPc' = "monitor"
  /\ monitorPc' = [c \in ChannelIds |->
                     IF c \in sessions THEN "monitoring" ELSE "none"]
  /\ monitors' = sessions
  /\ UNCHANGED <<terminalVars, storeVars, notMultiVars, setupPc, sessions,
                 results>>

\* _monitor_channel, lines 172-187: the monitor of channel c ends (timeout
\* or error) and its result is stored.
MonitorEnds(c) ==
  /\ multiPc = "monitor"
  /\ monitorPc[c] = "monitoring"
  /\ monitorPc' = [monitorPc EXCEPT ![c] = "ended"]
  /\ results' = [results EXCEPT ![c] = "captured"]
  /\ UNCHANGED <<terminalVars, storeVars, notMultiVars, multiPc, setupPc,
                 sessions, monitors>>

\* start, lines 68-76: the gather of the monitors returns.
MultiDone ==
  /\ multiPc = "monitor"
  /\ \A c \in ChannelIds : monitorPc[c] # "monitoring"
  /\ multiPc' = "done"
  /\ UNCHANGED <<terminalVars, storeVars, notMultiVars, setupPc, monitorPc,
                 sessions, monitors, results>>

\* ------------------------------------------------------------- PRTCommand
\* What one attempt of click_run_button meets: the two waits for the Run
\* button return it, time out or raise; the button is enabled or not; the
\* normal click and the JavaScript click succeed or raise.
RunOutcomes ==
  {[found |-> f, enabled |-> TRUE, click |-> TRUE, js |-> TRUE] :
     f \in {"timeout", "error", "ok"}}
  \cup {[found |-> "ok", enabled |-> e, click |-> FALSE, js |-> j] :
          e \in BOOLEAN, j \in BOOLEAN}

\* click_run_button, lines 104-138: the clicks one attempt tries, in order.
ClicksOf(n, o) ==
  IF o.found # "ok" THEN <<>>
  ELSE IF o.enabled
       THEN IF o.click
            THEN <<[attempt |-> n, kind |-> "click", ok |-> TRUE]>>
            ELSE <<[attempt |-> n, kind |-> "click", ok |-> FALSE],
                   [attempt |-> n, kind |-> "js", ok |-> o.js]>>
       ELSE <<[attempt |-> n, kind |-> "js", ok |-> o.js]>>

\* click_run_button, lines 121, 135, 143, 149: "if attempt < max_attempts".
HasAttemptsLeftOffByOne(n) == n <= max_attempts
HasAttemptsLeft(n) == n < max_attempts

\* click_run_button, lines 72-152: one iteration of "for attempt in
\* range(1, max_attempts + 1)".
RunAttempt ==
  /\ prtPc = "click"
  /\ \E o \in RunOutcomes :
       LET clicks == ClicksOf(attempt, o)
           clicked == clicks # <<>> /\ Last(clicks).ok
       IN /\ clickLog' = clickLog \o clicks
          /\ IF clicked
             THEN /\ prtRet' = [op |-> "click_run_button", value |-> "True",
                                attempts |-> attempt, elapsed |-> 0]
                  /\ prtPc' = "wait"
                  /\ UNCHANGED attempt
             ELSE IF HasAttemptsLeft(attempt)
             THEN /\ attempt' = attempt + 1
                  /\ UNCHANGED <<prtPc, prtRet>>
             ELSE /\ prtRet' = [op |-> "click_run_button", value |-> "False",
                                attempts |-> attempt, elapsed |-> 0]
                  /\ prtPc' = "done"
                  /\ UNCHANGED attempt
  /\ UNCHANGED <<terminalVars, storeVars, notPrtVars, waitVars, exportVars>>

\* The style attribute of the progress bar, and the text of the progress
\* label as its characters.
BarStyles == {"width: 100%", "width:100%", "width: 50%"}
TextDone == <<"2", " ", "/", " ", "2">>
TextPart == <<"1", " ", "/", " ", "2">>
TextOdd  == <<"2", "/", "2", "/", "2">>
Texts == {TextDone, TextPart, TextOdd, <<>>}

\* What one poll of wait_for_completion meets: finding the progress bar
\* returns it, raises NoSuchElementException ("missing") or raises another
\* error ("error": a stale window, a dead browser); so does finding the label.
PollOutcomes ==
  {[bar |-> b, found |-> "none", text |-> <<>>] :
     b \in {"missing", "error", "width: 100%", "width:100%"}}
  \cup {[bar |-> "width: 50%", found |-> f, text |-> <<>>] :
          f \in {"missing", "error"}}
  \cup {[bar |-> "width: 50%", found |-> "ok", text |-> t] : t \in Texts}

\* str.split(sep): the parts of s between the separators.
RECURSIVE Split(_, _)
Split(str, sep) ==
  IF \E i \in 1..Len(str) : str[i] = sep
  THEN LET i == CHOOSE j \in 1..Len(str) :
                  str[j] = sep /\ \A k \in 1..(j - 1) : str[k] # sep
       IN <<SubSeq(str, 1, i - 1)>> \o Split(SubSeq(str, i + 1, Len(str)), sep)
  ELSE <<str>>

\* str.strip(): s without its leading and trailing blanks.
RECURSIVE Strip(_)
Strip(str) ==
  IF str # <<>> /\ Head(str) = " " THEN Strip(Tail(str))
  ELSE IF str # <<>> /\ Last(str) = " "
       THEN Strip(SubSeq(str, 1, Len(str) - 1))
       ELSE str

\* wait_for_completion, line 172: the bar is at 100%.
BarComplete(style) == style \in {"width: 100%", "width:100%"}

\* wait_for_completion, lines 183-188: the label reads "current / total"
\* with current == total.
TextCompleteAnyTwoParts(text) ==
  text # <<>> /\ Len(Split(text, "/")) = 2
TextComplete(text) ==
  /\ text # <<>>
  /\ LET parts == Split(text, "/") IN
     Len(parts) = 2 /\ Strip(parts[1]) = Strip(parts[2])

\* wait_for_completion, lines 163-196: one iteration of the loop. A poll that
\* sees the analysis complete returns True; NoSuchElementException is passed
\* over; any other error leaves the loop and returns False (lines 201-203);
\* otherwise the loop sleeps a second.
WaitPoll ==
  /\ prtPc = "wait"
  /\ elapsed < timeout
  /\ \E o \in PollOutcomes :
       LET raised == o.bar = "error" \/ o.found = "error"
           complete == \/ (o.bar \in BarStyles /\ BarComplete(o.bar))
                       \/ (o.found = "ok" /\ TextComplete(o.text))
       IN /\ lastPoll' = o
          /\ IF complete
             THEN /\ prtRet' = [op |-> "wait_for_completion",
                                value |-> "True", attempts |-> 0,
                                elapsed |-> elapsed]
                  /\ prtPc' = "export"
                  /\ UNCHANGED elapsed
             ELSE IF raised
             THEN /\ prtRet' = [op |-> "wait_for_completion",
                                value |-> "False", attempts |-> 0,
                                elapsed |-> elapsed]
                  /\ prtPc' = "done"
                  /\ UNCHANGED elapsed
             ELSE /\ elapsed' = elapsed + 1
                  /\ prtRet' = NoPrtResult
                  /\ UNCHANGED prtPc
  /\ attempt' = 1
  /\ clickLog' = <<>>
  /\ UNCHANGED <<terminalVars, storeVars, notPrtVars, timeout, exportVars>>

\* wait_for_completion, lines 163 and 198-199: the timeout has elapsed.
WaitTimesOut ==
  /\ prtPc = "wait"
  /\ elapsed >= timeout
  /\ prtRet' = [op |-> "wait_for_completion", value |-> "False",
                attempts |-> 0, elapsed |-> elapsed]
  /\ prtPc' = "done"
  /\ attempt' = 1
  /\ clickLog' = <<>>
  /\ UNCHANGED <<terminalVars, storeVars, notPrtVars, waitVars, exportVars>>

\* export_csv, lines 231-249: the .csv files of the directory are listed, the
\* Export CSV button is found and clicked; a button that is missing or a
\* click that raises ends the call with None (lines 281-283).
ExportClick ==
  /\ prtPc = "export"
  /\ existing_files' = downloads
  /\ exportPolls' = 0
  /\ \E clicked \in BOOLEAN :
       IF clicked
       THEN prtPc' = "poll" /\ prtRet' = NoPrtResult
       ELSE /\ prtPc' = "done"
            /\ prtRet' = [op |-> "export_csv", value |-> "None",
                          attempts |-> 0, elapsed |-> 0]
  /\ elapsed' = 0
  /\ lastPoll' = NoPoll
  /\ UNCHANGED <<terminalVars, storeVars, notPrtVars, runVars, timeout,
                 downloads>>

\* The browser finishes the download the Export click started.
OwnDownloadLands ==
  /\ prtPc = "poll"
  /\ OwnCsv \notin downloads
  /\ downloads' = downloads \cup {OwnCsv}
  /\ UNCHANGED <<terminalVars, storeVars, notPrtVars, prtPc, runVars, waitVars,
                 existing_files, exportPolls, prtRet>>

\* Another download of the user (or of another command) puts a .csv into the
\* same directory.
OtherDownloadLands ==
  /\ prtPc \in {"export", "poll"}
  /\ OtherCsv \notin downloads
  /\ downloads' = downloads \cup {OtherCsv}
  /\ UNCHANGED <<terminalVars, storeVars, notPrtVars, prtPc, runVars, waitVars,
                 existing_files, exportPolls, prtRet>>

\* export_csv, lines 253-279: one iteration of the wait loop. new_files.pop()
\* takes an arbitrary element of the new files.
ExportPoll ==
  /\ prtPc = "poll"
  /\ LET new_files == downloads \ existing_files IN
     IF new_files # {}
     THEN /\ \E new_file \in new_files :
               prtRet' = [op |-> "export_csv", value |-> new_file,
                          attempts |-> exportPolls + 1, elapsed |-> 0]
          /\ prtPc' = "done"
          /\ exportPolls' = exportPolls + 1
     ELSE IF exportPolls + 1 < ExportPolls
     THEN /\ exportPolls' = exportPolls + 1
          /\ UNCHANGED <<prtPc, prtRet>>
     ELSE /\ prtRet' = [op |-> "export_csv", value |-> "None",
                        attempts |-> exportPolls + 1, elapsed |-> 0]
          /\ prtPc' = "done"
          /\ exportPolls' = exportPolls + 1
  /\ UNCHANGED <<terminalVars, storeVars, notPrtVars, runVars, waitVars,
                 downloads, existing_files>>

\* ------------------------------------------------------------- close, stepwise
\* close returns value.
CloseReturns(value) ==
  /\ closePc' = "returned"
  /\ closeRet' = value

\* close, line 152: "if retry_count > 2".
GivesUpNever(n) == FALSE
GivesUp(n) == n > MaxCloseRetry

\* close, lines 152-175: the entry of an invocation: the retry limit, the
\* missing window, and the refresh of a stale reference (the window is found
\* again among the current windows, or is not, or the lookup raises).
CloseEnter ==
  /\ closePc = "enter"
  /\ IF GivesUp(retry_count) \/ winRef = "none"
     THEN /\ CloseReturns("False")
          /\ UNCHANGED <<winRef, strategy, tried, closeLast>>
     ELSE /\ closePc' = "strategies"
          /\ strategy' = 1
          /\ tried' = <<>>
          /\ closeLast' = "none"
          /\ closeRet' = "none"
          /\ IF hasId /\ winRef = "stale"
             THEN \E refreshed \in BOOLEAN :
                    winRef' = IF refreshed THEN "fresh" ELSE "stale"
             ELSE UNCHANGED winRef
  /\ UNCHANGED <<terminalVars, storeVars, notCloseVars, retry_count, hasId>>

\* What a strategy meets: its selector finds nothing (NoSuchElementException,
\* or no close element in the header), it finds and clicks a close element,
\* the window element has gone stale, or another error is raised. On a stale
\* reference every lookup raises StaleElementReferenceException.
StrategyOutcomes(w) ==
  IF w = "stale" THEN {"stale"} ELSE {"nothing", "clicked", "stale", "error"}

\* close, lines 219-231: strategy 4 catches every exception; the others
\* catch NoSuchElementException only.
SwallowsAll(k) == k = 4

\* close, lines 177-245: one strategy of the running invocation.
CloseStrategy ==
  /\ closePc = "strategies"
  /\ \E o \in StrategyOutcomes(winRef) :
       LET passed == o = "nothing" \/ (SwallowsAll(strategy) /\ o # "clicked")
       IN /\ tried' = Append(tried, strategy)
          /\ closeLast' = o
          /\ winRef' = IF o = "stale" THEN "stale" ELSE winRef
          /\ IF o = "clicked"
             THEN CloseReturns("True") /\ UNCHANGED strategy
             ELSE IF passed
             THEN IF strategy < NumStrategies
                  THEN /\ strategy' = strategy + 1
                       /\ UNCHANGED <<closePc, closeRet>>
                  ELSE CloseReturns("False") /\ UNCHANGED strategy
             ELSE IF o = "stale"
             THEN /\ closePc' = "stale"
                  /\ UNCHANGED <<strategy, closeRet>>
             ELSE CloseReturns("False") /\ UNCHANGED strategy
  /\ UNCHANGED <<terminalVars, storeVars, notCloseVars, retry_count, hasId>>

\* close, lines 247-260: the handler of StaleElementReferenceException: with
\* a window_id, the window is looked up again and, when found, close calls
\* itself with retry_count + 1; the result of that call is its result.
CloseStaleHandler ==
  /\ closePc = "stale"
  /\ \E found_again \in BOOLEAN :
       IF hasId /\ found_again
       THEN /\ winRef' = "fresh"
            /\ retry_count' = retry_count + 1
            /\ closePc' = "enter"
            /\ UNCHANGED closeRet
       ELSE /\ CloseReturns("False")
            /\ UNCHANGED <<winRef, retry_count>>
  /\ UNCHANGED <<terminalVars, storeVars, notCloseVars, strategy, hasId, tried,
                 closeLast>>

\* ------------------------------------------------------------- Spec
Next ==
  \/ WindowAppears
  \/ UserClosesWindow
  \/ Send
  \/ Poll
  \/ PollTimeout
  \/ Load
  \/ Extract
  \/ CtlConnect
  \/ Login
  \/ ExecuteCommand
  \/ CommandClose
  \/ CloseAllWindows
  \/ CtlDisconnect

Spec == Init /\ [][Next]_vars

NextApi ==
  \/ WindowAppears
  \/ UserClosesWindow
  \/ Send
  \/ Poll
  \/ PollTimeout
  \/ Load
  \/ Extract
  \/ ApiConnect
  \/ ApiDisconnect
  \/ ApiCommand
  \/ ApiCloseAllWindows
  \/ WithEnter
  \/ WithExit

SpecApi == InitApi /\ [][NextApi]_vars

NextChat ==
  \/ FrameArrives
  \/ DomShowsMessage
  \/ ProcessNewFrames
  \/ PollDomMessages
  \/ RestartMonitors
  \/ SavePdf
  \/ QueryMessagesCall
  \/ QueryPdfsCall

SpecChat == InitChat /\ [][NextChat]_vars

\* Monitors constructed with any db_path values, started together.
InitDb ==
  /\ TermInit("db") /\ ChatInit
  /\ \E paths \in [Callers -> Paths] : DbInit(paths)
  /\ MonInit
  /\ MultiInit
  /\ PrtInit("none", 0, {})
  /\ CloseInit("none", "none", FALSE)

NextDb ==
  \/ \E c \in Callers : GetDb(c)
  \/ \E c \in Callers : InitConnect(c)
  \/ \E c \in Callers : InitSchema(c)
  \/ \E c \in Callers : InitReturn(c)
  \/ \E c \in Callers : SaveThroughBackend(c)
  \/ CloseDb

SpecDb == InitDb /\ [][NextDb]_vars

InitMon == TermInit("monitor") /\ ChatInit /\ SideInit

NextMon ==
  \/ FrameArrives
  \/ MonStart
  \/ MonSlice
  \/ MonSaveDone
  \/ MonWake

SpecMon == InitMon /\ [][NextMon]_vars

InitMulti == TermInit("multi") /\ ChatInit /\ SideInit

NextMulti ==
  \/ MultiStart
  \/ \E c \in ChannelIds : SetupStep(c)
  \/ \E c \in ChannelIds : OpenChatWindow(c)
  \/ StartMonitors
  \/ \E c \in ChannelIds : MonitorEnds(c)
  \/ MultiDone

SpecMulti == InitMulti /\ [][NextMulti]_vars

\* PRTCommand.execute after its window was found and the tickers entered.
InitPrt ==
  /\ TermInit("prt") /\ ChatInit
  /\ DbInit([c \in Callers |-> ""]) /\ MonInit /\ MultiInit
  /\ CloseInit("none", "none", FALSE)
  /\ \E t \in 0..MaxTimeout, d \in SUBSET {OldCsv} : PrtInit("click", t, d)

NextPrt ==
  \/ RunAttempt
  \/ WaitPoll
  \/ WaitTimesOut
  \/ ExportClick
  \/ OwnDownloadLands
  \/ OtherDownloadLands
  \/ ExportPoll

SpecPrt == InitPrt /\ [][NextPrt]_vars

\* command.close() on a command with or without a window and a window_id.
InitClose ==
  /\ TermInit("close") /\ ChatInit
  /\ DbInit([c \in Callers |-> ""]) /\ MonInit /\ MultiInit
  /\ PrtInit("none", 0, {})
  /\ \E w \in {"none", "fresh", "stale"}, id \in BOOLEAN :
       CloseInit("enter", w, id)

NextClose ==
  \/ CloseEnter
  \/ CloseStrategy
  \/ CloseStaleHandler

SpecClose == InitClose /\ [][NextClose]_vars

\* close runs in the caller's thread and each of its lookups and sleeps is
\* bounded, so a step that is enabled is taken.
FairSpecClose == SpecClose /\ WF_vars(NextClose)

\* The steps of a PRTCommand are those of one thread; each of its waits and
\* sleeps is bounded, so a step that is enabled is taken.
FairSpecPrt == SpecPrt /\ WF_vars(NextPrt)

\* ------------------------------------------------------------- properties
\* The stages of a finished BaseCommand.execute, when the call that ended in
\* this step was one (it returned a result and was not an unknown type).
ExecuteReturned ==
  /\ ret.op \in {"ctl", "api"} /\ ret.raised = ""
  /\ ret.error \notin {UnknownError(t) : t \in CmdTypes}

\* C1: the window get_new_window returned to the running command was not in
\* the DOM when the command took its previous_count snapshot.
C1_NewWindowNotInSnapshot ==
  pc \in {"load", "extract"} => cur.window \notin snapshot

\* C1 witness: a later command of the same monitor got its window while
\* windows that existed at its snapshot were in the DOM.
C1_Witness ==
  /\ pc = "load"
  /\ cur.cid >= 2
  /\ snapshot # {}
  /\ snapshot \subseteq Uids(dom)

\* C2: get_new_window returns no id twice, the returned ids are exactly the
\* tracked ones, and tracked_windows only grows.
C2_NoIdReturnedTwice ==
  /\ [](/\ \A i \in WindowIds : returned[i] <= 1
        /\ tracked = {i \in WindowIds : returned[i] >= 1})
  /\ [][tracked \subseteq tracked']_vars

\* C2 witness: a poll saw more windows than previous_count, the newest with
\* an id that had been returned before, and did not return it.
C2_Witness ==
  /\ pc = "poll"
  /\ polls >= 1
  /\ Len(dom) > prevCount
  /\ Last(dom).id \in tracked
  /\ returned[Last(dom).id] = 1

\* C3: execute runs send, window, loading, extract in this order; the first
\* failing stage is the last one run and gives the error; success and data
\* come exactly when all four stages succeeded.
C3_StagesInOrder ==
  ExecuteReturned =>
    LET s == ret.stages
        n == Len(s)
    IN /\ n \in 1..4
       /\ \A k \in 1..n :
            s[k].name = <<"send", "window", "loading", "extract">>[k]
       /\ \A k \in 1..(n - 1) : s[k].ok
       /\ ~s[n].ok =>
            /\ ~ret.success
            /\ ret.error = CASE n = 1 -> "Failed to send command"
                              [] n = 2 -> "No new window created"
                              [] n = 3 -> "Loading timeout"
                              [] n = 4 -> "Data extraction failed"
       /\ s[n].ok => (n = 4 /\ ret.success /\ ret.error = "")
       /\ ret.data = ret.success

\* C3 witness: an execute that stopped at the loading stage.
C3_Witness ==
  /\ ExecuteReturned
  /\ ret.error = ErrLoading
  /\ Len(ret.stages) = 3

\* C4: active_commands holds exactly the commands that succeeded since the
\* last close_all_windows, in execution order, and execute_command returns a
\* command exactly with a successful result.
C4_ActiveAreSucceeded ==
  /\ [k \in 1..Len(active) |-> active[k].cid] = succeeded
  /\ ret.op = "ctl" =>
       /\ (ret.cmdRet # NoCommand) <=> ret.success
       /\ ret.cmdRet # NoCommand => ret.cmdRet = ret.cid

\* C4 witness: a failed execute_command after a successful one.
C4_Witness ==
  /\ ret.op = "ctl"
  /\ ~ret.success
  /\ ret.cid = 2
  /\ Len(active) = 1

\* C5: after close_all_windows active_commands is empty and no window of a
\* command that was active is left in the DOM.
C5_CloseAllClosesAll ==
  closed.op = "ctl" => (closed.after = <<>> /\ closed.left = {})

\* C6: GodelAPI.close_all_windows and disconnect call close() on the window
\* of every command a GodelAPI method executed with success before.
C6_ApiCloseAllClosesApiWindows ==
  closed.op \in {"api", "disconnect"} =>
    closed.apiBefore \subseteq Range(closed.called)

\* C7: a GodelAPI command method called while the last connect() did not
\* return True (never called, returned False, or disconnected since) raises
\* the not-connected RuntimeError and sends nothing; _connected implies a
\* controller.
C7_NotConnectedRaises ==
  /\ (pc # "idle" /\ via = "api") => lastConnect = "true"
  /\ (ret.op = "api" /\ ret.conn # "true") =>
       (ret.raised = NotConnectedError /\ ret.sent = 0)
  /\ connected => hasCtl

\* C8: after the with-block is left every browser that was started has been
\* quit, controller is None and _connected is False.
C8_WithExitCleansUp ==
  withPc = "exited" =>
    /\ \A b \in 1..Len(browsers) : browsers[b] = "quit"
    /\ ~hasCtl
    /\ ~connected

\* C8 witness: the with-block was left after a connect() that had started a
\* browser and returned False.
C8_Witness ==
  /\ withPc = "exited"
  /\ ret.op = "exit"
  /\ ret.conn = "false"
  /\ Len(browsers) = 1
  /\ browsers[1] = "quit"

SameMessage(r1, r2) ==
  r1.channel = r2.channel /\ r1.sender = r2.sender /\ r1.content = r2.content

IsPrefix(a, b) == Len(a) <= Len(b) /\ \A i \in 1..Len(a) : a[i] = b[i]

IdsIncrease(table) ==
  \A i, j \in 1..Len(table) : i < j => table[i].id < table[j].id

\* The rows a step added to a table are exactly one per save of the step,
\* after the old rows, each with the id its save returned.
Appended(old, new, ids) ==
  /\ IsPrefix(old, new)
  /\ Len(new) = Len(old) + Len(ids)
  /\ \A k \in 1..Len(ids) : new[Len(old) + k].id = ids[k]

\* C9: chat_messages never holds two rows with the same channel, sender and
\* content.
C9_NoDuplicateRows ==
  \A i, j \in 1..Len(chat_messages) :
    i < j => ~SameMessage(chat_messages[i], chat_messages[j])

\* C10: no step changes or removes a row of chat_messages or pdf_downloads,
\* every save adds one row whose id it returns, and ids increase with the
\* order of the saves.
C10_AppendOnly ==
  /\ [](IdsIncrease(chat_messages) /\ IdsIncrease(pdf_downloads))
  /\ [][/\ Appended(chat_messages, chat_messages', saved'.msg)
        /\ Appended(pdf_downloads, pdf_downloads', saved'.pdf)]_vars

\* C10 witness: a save stored a message the table already held a row for,
\* and both rows are there.
C10_Witness ==
  /\ saved.msg # <<>>
  /\ Len(chat_messages) >= 2
  /\ SameMessage(chat_messages[Len(chat_messages)], chat_messages[1])

\* C11: every backend get_db returned had completed init(): its connection
\* was open and the schema existed when the caller got it.
C11_ReturnedBackendInitialised ==
  \A c \in Callers :
    callerPc[c] = "has_db" => (got[c].exists /\ got[c].open /\ got[c].schema)

\* C12: a message saved by a monitor constructed with db_path = P is stored
\* in the database at P.
C12_DbPathOverrides ==
  (dbRet.op = "save" /\ dbRet.raised = "" /\ dbRet.wanted # "") =>
    dbRet.stored = dbRet.wanted

\* C13: the frames passed to _process_frame are the frames of ws_frames in
\* arrival order, each once, and between two rounds they are all the frames
\* that processed_idx counts as processed.
C13_EveryFrameProcessedOnce ==
  /\ \A k \in 1..Len(processedLog) : processedLog[k] = k
  /\ monPc \in {"loop", "sleep"} => Len(processedLog) = processed_idx

C15_UnknownCommandRejected ==
  /\ [](ret.op = "ctl" /\ ret.ctype \notin Registered =>
          ret = [NoResult EXCEPT !.op = "ctl", !.ctype = ret.ctype,
                                 !.error = UnknownError(ret.ctype),
                                 !.available = Registered])
  /\ [](via = "ctl" /\ pc # "idle" => cur.type \in Registered)
  /\ [][ret'.op = "ctl" /\ ret'.ctype \notin Registered =>
          /\ active' = active /\ tracked' = tracked /\ dom' = dom
          /\ nCmds' = nCmds /\ pc' = pc /\ sent' = sent]_vars

\* An unknown command type was rejected by a controller that has an active
\* command and tracked windows.
C15_Witness ==
  /\ ret.op = "ctl" /\ ret.error = UnknownError("XYZ")
  /\ ret.cmdRet = NoCommand /\ ~ret.success
  /\ Len(active) > 0 /\ tracked # {}

\* C16: click_run_button makes at most max_attempts attempts; an attempt
\* tries the normal click and, when that raises, the JavaScript click, or the
\* JavaScript click alone on a disabled button; it returns True at the first
\* click that succeeds and False only when its third attempt failed; and it
\* always returns.
C16_ClickRunButton ==
  /\ [](attempt \in 1..max_attempts)
  /\ [](\A k \in 1..Len(clickLog) :
          /\ clickLog[k].attempt \in 1..max_attempts
          /\ k < Len(clickLog) => ~clickLog[k].ok
          /\ k > 1 => clickLog[k - 1].attempt <= clickLog[k].attempt
          /\ (k > 1 /\ clickLog[k - 1].attempt = clickLog[k].attempt) =>
               (clickLog[k - 1].kind = "click" /\ clickLog[k].kind = "js"))
  /\ [](prtRet.op = "click_run_button" =>
          /\ prtRet.value = "True" =>
               (clickLog # <<>> /\ Last(clickLog).ok
                /\ Last(clickLog).attempt = prtRet.attempts)
          /\ prtRet.value = "False" =>
               (prtRet.attempts = max_attempts
                /\ \A k \in 1..Len(clickLog) : ~clickLog[k].ok))
  /\ [](prtPc = "click" => prtRet.op # "click_run_button")
  /\ (prtPc = "click") ~> (prtRet.op = "click_run_button")

\* click_run_button returned True at its third attempt, by the JavaScript
\* click after the normal click had raised.
C16_Witness ==
  /\ prtRet.op = "click_run_button" /\ prtRet.value = "True"
  /\ prtRet.attempts = max_attempts
  /\ Last(clickLog).kind = "js"
  /\ Len(clickLog) > 1 /\ clickLog[Len(clickLog) - 1].attempt = max_attempts

C18_ReturnsOwnCsv ==
  prtRet.op = "export_csv" =>
    /\ prtRet.value # "None" => prtRet.value = OwnCsv
    /\ (prtRet.value = "None" /\ prtRet.attempts > 0) =>
         (prtRet.attempts = ExportPolls /\ downloads \subseteq existing_files)

\* C19: close always returns. It calls itself only from the handler of a
\* stale-element error, after the window reference was refreshed and with
\* retry_count + 1, and returns False once retry_count > MaxCloseRetry. An
\* invocation runs the NumStrategies strategies in their fixed order and
\* returns True at the first one that finds and clicks a close element; it
\* returns False when the command has no window or no strategy finds one.
C19_CloseTerminates ==
  /\ [](retry_count \in 0..(MaxCloseRetry + 1))
  /\ [](tried = [k \in 1..Len(tried) |-> k] /\ Len(tried) <= NumStrategies)
  /\ [](closePc = "strategies" => strategy = Len(tried) + 1)
  /\ [](closeRet = "True" =>
          /\ closePc = "returned" /\ closeLast = "clicked"
          /\ winRef # "none" /\ retry_count <= MaxCloseRetry)
  /\ [](closePc = "returned" =>
          /\ closeLast = "clicked" => closeRet = "True"
          /\ winRef = "none" => closeRet = "False"
          /\ retry_count > MaxCloseRetry => closeRet = "False"
          /\ (closeLast = "nothing" /\ Len(tried) = NumStrategies) =>
               closeRet = "False")
  /\ [][retry_count' # retry_count =>
          /\ closePc = "stale" /\ closeLast = "stale"
          /\ retry_count' = retry_count + 1
          /\ winRef' = "fresh" /\ closePc' = "enter"]_vars
  /\ [][closePc' = "enter" => retry_count' = retry_count + 1]_vars
  /\ (closePc = "enter") ~> (closePc = "returned")

\* close gave up: its third retry was refused by the retry limit.
C19_Witness ==
  /\ closePc = "returned" /\ closeRet = "False"
  /\ retry_count = MaxCloseRetry + 1
  /\ closeLast = "stale"

====
